---------------------------- MODULE Spec2Model ----------------------------
(* Model of the qBittorrent Web-API client: NewClient, AuthLogin, the      *)
(* retrying dispatcher doRequest and the doGet/doPost helpers built on it, *)
(* together with the RWMutex-guarded SID token and an HTTP transport whose *)
(* backend may answer every request with any status.                       *)
EXTENDS Integers, Sequences, FiniteSets, TLC

(***************************************************************************)
(* Bounds of the model.                                                    *)
(***************************************************************************)
\* nesting of AuthLogin inside doRequest at which the goroutine stack is
\* taken to be exhausted
MaxDepth == 2
\* longest Hashes list handed to TorrentsInfo
MaxHashes == 2
\* longest tags string of a torrent record the backend returns
MaxTagLen == 3
\* longest torrent list the backend returns
MaxTorrents == 2

(***************************************************************************)
(* Program constants.                                                      *)
(***************************************************************************)
StatusOK == 200
StatusForbidden == 403
StatusUnauthorized == 401
StatusInternalServerError == 500

LoginEndpoint == "/api/v2/auth/login"
FormContentType == "application/x-www-form-urlencoded"

\* statuses the backend may answer with
Statuses == {StatusOK, StatusUnauthorized, StatusForbidden, StatusInternalServerError}

\* thread 0 runs NewClient, the two threads 1 and 2 share the client
Callers == {1, 2}
Procs == {0} \cup Callers
\* the thread that invokes the one operation of the single-call scenario Spec
Calls == {1}
IsMain(p) == p = 0

(***************************************************************************)
(* Values.                                                                 *)
(***************************************************************************)
\* io.Reader over a byte string: nil, or data with a read position
NilReader == [nil |-> TRUE, data |-> <<>>, pos |-> 0]
NewReader(d) == [nil |-> FALSE, data |-> d, pos |-> 0]
\* io.ReadAll: the bytes from the read position to the end ...
ReadAll(r) == SubSeq(r.data, r.pos + 1, Len(r.data))
\* ... after which the reader is at EOF
Drained(r) == [r EXCEPT !.pos = Len(r.data)]

\* a []byte that may be nil
NilBytes == [nil |-> TRUE, data |-> <<>>]
Bytes(d) == [nil |-> FALSE, data |-> d]

\* strings whose characters matter are sequences of characters
\* strings.Join
RECURSIVE Join(_, _)
Join(elems, sep) ==
    IF elems = <<>> THEN <<>>
    ELSE IF Len(elems) = 1 THEN elems[1]
    ELSE elems[1] \o sep \o Join(Tail(elems), sep)

\* strings.Split(s, sep) for a separator of one character
RECURSIVE Split(_, _)
Split(s, c) ==
    IF \A i \in DOMAIN s : s[i] # c
    THEN <<s>>
    ELSE LET i == CHOOSE i \in DOMAIN s : s[i] = c /\ \A j \in 1 .. i - 1 : s[j] # c
         IN  <<SubSeq(s, 1, i - 1)>> \o Split(SubSeq(s, i + 1, Len(s)), c)

\* url.QueryEscape: letters stay, reserved characters become %XX
EscapeChar(c) ==
    CASE c = "|" -> <<"%", "7", "C">>
      [] c = "," -> <<"%", "2", "C">>
      [] c = "%" -> <<"%", "2", "5">>
      [] OTHER -> <<c>>
RECURSIVE QueryEscape(_)
QueryEscape(s) ==
    IF s = <<>> THEN <<>> ELSE EscapeChar(Head(s)) \o QueryEscape(Tail(s))

\* url.QueryUnescape, as the server applies it to a received parameter
UnescapeChar(t) ==
    CASE t = <<"%", "7", "C">> -> "|"
      [] t = <<"%", "2", "C">> -> ","
      [] t = <<"%", "2", "5">> -> "%"
RECURSIVE QueryUnescape(_)
QueryUnescape(s) ==
    IF s = <<>> THEN <<>>
    ELSE IF Head(s) = "%"
    THEN <<UnescapeChar(SubSeq(s, 1, 3))>> \o QueryUnescape(SubSeq(s, 4, Len(s)))
    ELSE <<Head(s)>> \o QueryUnescape(Tail(s))

\* url.Values.Encode: key=value pairs sorted by key, the values escaped.  The
\* values of the keys in TextKeys are spelled out character by character;
\* the others are words without reserved characters, which escaping leaves
\* as they are
KeyOrder == <<"filter", "hash", "hashes", "password", "rid", "tags", "username">>
TextKeys == {"filter", "hashes"}
EncodePair(pr) ==
    IF pr[1] \in TextKeys THEN <<pr[1], QueryEscape(pr[2])>> ELSE pr
Encode(q) ==
    LET ks == SelectSeq(KeyOrder, LAMBDA k : \E pr \in q : pr[1] = k)
    IN  [i \in 1 .. Len(ks) |-> EncodePair(CHOOSE pr \in q : pr[1] = ks[i])]

\* http.Cookie lists a login response may carry
Cookie(n, v) == [name |-> n, value |-> v]
CookieLists ==
    { <<>>,
      << Cookie("other", "x"), Cookie("SID", "a") >>,
      << Cookie("SID", "b"), Cookie("SID", "a") >> }

\* a Go slice that may be nil
NilSlice == [nil |-> TRUE, elems |-> <<>>]
Slice(elems) == [nil |-> FALSE, elems |-> elems]

\* what a response body holds: a JSON array of torrent records, or text that
\* is no JSON
NoBody == [json |-> FALSE, torrents |-> <<>>]
JSONBody(ts) == [json |-> TRUE, torrents |-> ts]

\* http.Response: status, body (identified by the request it answers), cookies
NoResp == [status |-> 0, id |-> 0, cookies |-> <<>>, content |-> NoBody]
Response(s, i, ck) == [status |-> s, id |-> i, cookies |-> ck, content |-> NoBody]

\* error values: the chain of fmt.Errorf prefixes around the root cause, the
\* status code and body text the message carries, and whether the root cause
\* is an error of the HTTP transport
NoErr == [isErr |-> FALSE, wraps |-> <<>>, status |-> 0, body |-> 0, transport |-> FALSE]
StatusErr(prefix, s, b) ==
    [isErr |-> TRUE, wraps |-> <<prefix>>, status |-> s, body |-> b, transport |-> FALSE]
TransportErr == [isErr |-> TRUE, wraps |-> <<>>, status |-> 0, body |-> 0, transport |-> TRUE]
\* the error of json.Unmarshal
DecodeErr == [isErr |-> TRUE, wraps |-> <<>>, status |-> 0, body |-> 0, transport |-> FALSE]
Wrap(prefix, e) == [e EXCEPT !.wraps = <<prefix>> \o @]

\* what a function returns: (response, error) or ([]byte, error) or error
NoRet == [err |-> NoErr, resp |-> NoResp, data |-> 0, content |-> NoBody,
          value |-> NilSlice]
RetResp(r) == [NoRet EXCEPT !.resp = r]
RetErr(e) == [NoRet EXCEPT !.err = e]
RetBytes(r) == [NoRet EXCEPT !.data = r.id, !.content = r.content]
\* ... or (a decoded slice, error)
RetValue(v) == [NoRet EXCEPT !.value = v]

(***************************************************************************)
(* Torrent queries and torrent records.                                    *)
(***************************************************************************)
InfoEndpoint == "/api/v2/torrents/info"

\* the arguments of TorrentsInfo(params ...*TorrentsInfoParams): none, a nil
\* pointer, or a record.  Category, Tag, Sort, Reverse, Limit and Offset are
\* at their zero values throughout and are left out
NoParams == [given |-> FALSE, nil |-> TRUE, Filter |-> <<>>, Hashes |-> NilSlice]
NilParams == [NoParams EXCEPT !.given = TRUE]
Params(filter, hashes) ==
    [given |-> TRUE, nil |-> FALSE, Filter |-> filter, Hashes |-> hashes]

\* variant of TorrentsInfoQuery: the hashes parameter is set whenever there
\* are params
TorrentsInfoQueryAlways(pr) ==
    IF pr.given /\ ~pr.nil
    THEN (IF pr.Filter # <<>> THEN {<<"filter", pr.Filter>>} ELSE {})
         \cup {<<"hashes", Join(pr.Hashes.elems, <<"|">>)>>}
    ELSE {}

\* TorrentsInfo up to its call of doGet: the url.Values it builds (the nil
\* map and the empty map are both the empty set)
TorrentsInfoQuery(pr) ==
    IF pr.given /\ ~pr.nil
    THEN (IF pr.Filter # <<>> THEN {<<"filter", pr.Filter>>} ELSE {})
         \cup (IF Len(pr.Hashes.elems) > 0
               THEN {<<"hashes", Join(pr.Hashes.elems, <<"|">>)>>}
               ELSE {})
    ELSE {}

\* a torrent record of a JSON body: its hash and its tags field, which may
\* be absent
Torrent(h, hasTags, tags) == [hash |-> h, hasTags |-> hasTags, tags |-> tags]

\* what json.Unmarshal leaves in aux.RawTags
RawTags(obj) == IF obj.hasTags THEN obj.tags ELSE <<>>

\* variant of UnmarshalJSON: the tags string is split whatever it is
UnmarshalJSONSplitAll(obj) ==
    [Hash |-> obj.hash, Tags |-> Slice(Split(RawTags(obj), ","))]

\* TorrentInfo.UnmarshalJSON
UnmarshalJSON(obj) ==
    [Hash |-> obj.hash,
     Tags |-> IF RawTags(obj) = <<>>
              THEN Slice(<<>>)
              ELSE Slice(Split(RawTags(obj), ","))]

\* json.Unmarshal(respData, &torrents) of a JSON array
DecodeTorrents(body) ==
    Slice([i \in DOMAIN body.torrents |-> UnmarshalJSON(body.torrents[i])])

\* the keys of tagSet after TorrentsGetTags' loops over torrents and tags
TagSet(torrents) ==
    UNION { {torrents[i].Tags.elems[k] : k \in DOMAIN torrents[i].Tags.elems} :
            i \in DOMAIN torrents }

\* the orders in which a range over a map with the keys S may yield them
Perms(S) ==
    {f \in [1 .. Cardinality(S) -> S] :
        \A i \in DOMAIN f : \A j \in DOMAIN f : i # j => f[i] # f[j]}

\* http.Request
NoReq ==
    [method |-> "", endpoint |-> "", body |-> NilReader, contentType |-> "",
     hasCookie |-> FALSE, cookie |-> "", rawQuery |-> <<>>]

(***************************************************************************)
(* State.                                                                  *)
(***************************************************************************)
VARIABLES
    username,   \* Client.username
    password,   \* Client.password
    client,     \* what NewClient returned: "none" (not yet), "ok", "nil"
    sid,        \* Client.sid
    readers,    \* threads holding Client.mu in read mode
    writers,    \* threads holding Client.mu in write mode
    stack,      \* per thread: the activation records of the running call
    st,         \* per thread: "idle", "running", "done"
    result,     \* per thread: what its operation returned
    op,         \* per thread: the operation it invoked
    crashed,    \* the runtime aborted on stack exhaustion
    log,        \* requests handed to the transport, with their answers
    invs,       \* doRequest invocations, with what each returned
    writes      \* the tokens the logins have stored in c.sid so far, in order

vars == <<username, password, client, sid, readers, writers, stack, st, result,
          op, crashed, log, invs, writes>>

Top(stk) == stk[Len(stk)]
Pop(stk) == SubSeq(stk, 1, Len(stk) - 1)
SetTop(stk, f) == [stk EXCEPT ![Len(stk)] = f]

\* nesting depth of re-authentication in a stack
Depth(stk) == Cardinality({i \in 1 .. Len(stk) : stk[i].fn = "AuthLogin"})

\* ids of the doRequest invocations active in a stack, outermost first
Chain(stk) ==
    LET ds == SelectSeq(stk, LAMBDA f : f.fn = "doRequest")
    IN  [i \in 1 .. Len(ds) |-> ds[i].did]

(***************************************************************************)
(* Activation records.                                                     *)
(***************************************************************************)
BaseFrame ==
    [fn |-> "", pc |-> "", did |-> 0, method |-> "", endpoint |-> "",
     body |-> NilReader, bodyBuffer |-> NilBytes, contentType |-> "",
     hasOpts |-> FALSE, query |-> {}, attempt |-> 0, req |-> NoReq,
     newSid |-> "", idx |-> 0, tagSet |-> {}]

\* variant of NewRequest: the resend reuses the body reader of the request
\* already sent instead of a fresh reader over the buffer
NewRequestReuse(f) ==
    [method |-> f.method, endpoint |-> f.endpoint,
     body |-> IF f.req # NoReq THEN f.req.body
              ELSE IF f.bodyBuffer.nil THEN NilReader ELSE NewReader(f.bodyBuffer.data),
     contentType |-> f.contentType,
     hasCookie |-> FALSE, cookie |-> "", rawQuery |-> <<>>]

\* doRequest's closure makeRequest up to the point where it takes the read
\* lock: a fresh reader over the buffered body, method, URL, content type
NewRequest(f) ==
    [method |-> f.method, endpoint |-> f.endpoint,
     body |-> IF f.bodyBuffer.nil THEN NilReader ELSE NewReader(f.bodyBuffer.data),
     contentType |-> f.contentType,
     hasCookie |-> FALSE, cookie |-> "", rawQuery |-> <<>>]

\* variant of AddCookie: the cookie is attached whatever the token
AddCookieAlways(req, token) == [req EXCEPT !.hasCookie = TRUE, !.cookie = token]

\* makeRequest under the read lock: attach the SID cookie if there is a token
AddCookie(req, token) ==
    IF token # "" THEN [req EXCEPT !.hasCookie = TRUE, !.cookie = token] ELSE req

\* variant of ApplyOpts: the request modifiers are applied to the first
\* request only, the resend goes without them
ApplyOptsFirstOnly(f, req) ==
    IF f.hasOpts /\ f.attempt = 1 THEN [req EXCEPT !.rawQuery = Encode(f.query)] ELSE req

\* makeRequest after the lock: the request modifiers (withQuery)
ApplyOpts(f, req) ==
    IF f.hasOpts THEN [req EXCEPT !.rawQuery = Encode(f.query)] ELSE req

\* doRequest from its entry to the first makeRequest: the caller's body
\* reader is read to the end into bodyBuffer
DoRequestFrame(d, method, endpoint, body, contentType, hasOpts, query) ==
    LET f0 == [BaseFrame EXCEPT
                 !.fn = "doRequest", !.pc = "rlock", !.did = d,
                 !.method = method, !.endpoint = endpoint,
                 !.body = IF body.nil THEN body ELSE Drained(body),
                 !.bodyBuffer = IF body.nil THEN NilBytes ELSE Bytes(ReadAll(body)),
                 !.contentType = contentType, !.hasOpts = hasOpts,
                 !.query = query, !.attempt = 1]
    IN  [f0 EXCEPT !.req = NewRequest(f0)]

\* the record kept of a doRequest invocation: its arguments as passed, how
\* many logins had stored a token when it was entered and, for the request
\* of a login, the how-manieth store of a token that login made (0: none)
InvRec(p, parent, method, endpoint, body, contentType, hasOpts, query) ==
    [p |-> p, parent |-> parent, method |-> method, endpoint |-> endpoint,
     body |-> body, contentType |-> contentType, hasOpts |-> hasOpts,
     query |-> query, returned |-> FALSE, ret |-> NoRet,
     era |-> Len(writes), args |-> NoParams, wrote |-> 0]

\* AuthLogin from its entry into doPostResponse and doRequest
LoginForm == Encode({<<"username", username>>, <<"password", password>>})
AuthLoginFrames(d) ==
    << [BaseFrame EXCEPT !.fn = "AuthLogin", !.pc = "post", !.did = d],
       DoRequestFrame(d, "POST", LoginEndpoint, NewReader(LoginForm),
                      FormContentType, FALSE, {}) >>
AuthLoginInv(p, parent) ==
    InvRec(p, parent, "POST", LoginEndpoint, NewReader(LoginForm),
           FormContentType, FALSE, {})

(***************************************************************************)
(* What each function does with the value its callee returned, up to its   *)
(* own return (stop = FALSE) or its next access to shared state.           *)
(***************************************************************************)
Return(v) == [stop |-> FALSE, frame |-> BaseFrame, ret |-> v]
Continue(f) == [stop |-> TRUE, frame |-> f, ret |-> NoRet]

\* variant of SIDCookies: the cookies named SID, the last one first
SIDCookiesLast(resp) ==
    LET named == SelectSeq(resp.cookies, LAMBDA c : c.name = "SID")
    IN  [n \in DOMAIN named |-> named[Len(named) + 1 - n]]

\* the cookies named SID of a response, in their order; AuthLogin stops at
\* the first of them
SIDCookies(resp) == SelectSeq(resp.cookies, LAMBDA c : c.name = "SID")

\* variant of AuthLoginCont: stores the first cookie whatever its name
AuthLoginContAnyCookie(f, r) ==
    IF r.err.isErr
    THEN Return(RetErr(Wrap("AuthLogin error", r.err)))
    ELSE IF r.resp.status # StatusOK
    THEN Return(RetErr(StatusErr("AuthLogin error", r.resp.status, r.resp.id)))
    ELSE IF r.resp.cookies = <<>>
    THEN Return(NoRet)
    ELSE Continue([f EXCEPT !.pc = "lock", !.newSid = r.resp.cookies[1].value])

\* AuthLogin after doPostResponse returned
AuthLoginCont(f, r) ==
    IF r.err.isErr
    THEN Return(RetErr(Wrap("AuthLogin error", r.err)))
    ELSE IF r.resp.status # StatusOK
    THEN Return(RetErr(StatusErr("AuthLogin error", r.resp.status, r.resp.id)))
    ELSE IF SIDCookies(r.resp) = <<>>
    THEN Return(NoRet)
    ELSE Continue([f EXCEPT !.pc = "lock", !.newSid = SIDCookies(r.resp)[1].value])

\* variant of DoRequestCont: the resend is treated as a first attempt again,
\* so a second 403 starts another re-authentication
DoRequestContLoop(f, r) ==
    IF r.err.isErr
    THEN Return(RetErr(Wrap("re-authentication failed", r.err)))
    ELSE Continue([f EXCEPT !.pc = "rlock", !.attempt = 1, !.req = NewRequest(f)])

\* doRequest after the AuthLogin it called on a 403 returned
DoRequestCont(f, r) ==
    IF r.err.isErr
    THEN Return(RetErr(Wrap("re-authentication failed", r.err)))
    ELSE Continue([f EXCEPT !.pc = "rlock", !.attempt = 2, !.req = NewRequest(f)])

\* variant of DoGetCont: the body is returned whatever the status
DoGetContUnchecked(f, r) ==
    IF r.err.isErr
    THEN Return(r)
    ELSE Return(RetBytes(r.resp))

\* doGet after doRequest returned
DoGetCont(f, r) ==
    IF r.err.isErr
    THEN Return(r)
    ELSE IF r.resp.status # StatusOK
    THEN Return(RetErr(StatusErr("unexpected response code", r.resp.status, r.resp.id)))
    ELSE Return(RetBytes(r.resp))

\* variant of DoPostCont: the body is returned whatever the status
DoPostContUnchecked(f, r) ==
    IF r.err.isErr
    THEN Return(r)
    ELSE Return(RetBytes(r.resp))

\* doPost after doPostResponse returned
DoPostCont(f, r) ==
    IF r.err.isErr
    THEN Return(r)
    ELSE IF r.resp.status # StatusOK
    THEN Return(RetErr(StatusErr("POST error", r.resp.status, r.resp.id)))
    ELSE Return(RetBytes(r.resp))

\* NewClient after AuthLogin returned
NewClientCont(f, r) ==
    IF r.err.isErr
    THEN Return(RetErr(Wrap("AuthLogin error", r.err)))
    ELSE Return(NoRet)

\* the other operations that decode the body of one GET, with their
\* endpoints, their query parameters and the texts of their errors
\* ("": the error of doGet is returned as it is)
DecodeOps ==
    {"TorrentsTrackers", "TorrentsGetAllTags", "SyncMainData", "SyncTorrentPeers"}
DecodeEndpoint(name) ==
    CASE name = "TorrentsTrackers" -> "/api/v2/torrents/trackers"
      [] name = "TorrentsGetAllTags" -> "/api/v2/torrents/tags"
      [] name = "SyncMainData" -> "/api/v2/sync/maindata"
      [] name = "SyncTorrentPeers" -> "/api/v2/sync/torrentPeers"
DecodeQuery(name) ==
    CASE name = "TorrentsTrackers" -> {<<"hash", "h1">>}
      [] name = "TorrentsGetAllTags" -> {}
      [] name = "SyncMainData" -> {<<"rid", "0">>}
      [] name = "SyncTorrentPeers" -> {<<"rid", "0">>, <<"hash", "h1">>}
GetErrPrefix(name) ==
    CASE name = "TorrentsTrackers" -> "TorrentsTrackers error"
      [] name = "TorrentsGetAllTags" -> "GetAllTags error"
      [] OTHER -> ""
DecodeErrPrefix(name) ==
    CASE name = "TorrentsTrackers" -> "failed to decode trackers response"
      [] name = "TorrentsGetAllTags" -> "failed to decode tags response"
      [] OTHER -> "failed to decode response"

\* one of them after doGet returned: json.Unmarshal of the body; the records
\* of these shapes are taken over field by field
DecodeCont(f, r) ==
    IF r.err.isErr
    THEN Return(IF GetErrPrefix(f.fn) = "" THEN r
                ELSE RetErr(Wrap(GetErrPrefix(f.fn), r.err)))
    ELSE IF ~r.content.json
    THEN Return(RetErr(Wrap(DecodeErrPrefix(f.fn), DecodeErr)))
    ELSE Return(RetValue(Slice(r.content.torrents)))

\* variant of TorrentsInfoCont: a body that does not decode yields the
\* empty list and no error
TorrentsInfoContLenient(f, r) ==
    IF r.err.isErr
    THEN Return(r)
    ELSE Return(RetValue(DecodeTorrents(r.content)))

\* TorrentsInfo after doGet returned
TorrentsInfoCont(f, r) ==
    IF r.err.isErr
    THEN Return(r)
    ELSE IF ~r.content.json
    THEN Return(RetErr(Wrap("failed to decode response", DecodeErr)))
    ELSE Return(RetValue(DecodeTorrents(r.content)))

\* variant of TorrentsGetTagsCont: the tags are appended as they come, with
\* no set in between
TorrentsGetTagsContAppend(f, r) ==
    IF r.err.isErr
    THEN Return(RetErr(Wrap("TorrentsGetTags error", r.err)))
    ELSE LET ts == r.value.elems
             all == Join([i \in DOMAIN ts |-> ts[i].Tags.elems], <<>>)
         IN  Return(RetValue([nil |-> all = <<>>, elems |-> all]))

\* TorrentsGetTags after TorrentsInfo returned, up to the range over tagSet
TorrentsGetTagsCont(f, r) ==
    IF r.err.isErr
    THEN Return(RetErr(Wrap("TorrentsGetTags error", r.err)))
    ELSE Continue([f EXCEPT !.pc = "range", !.tagSet = TagSet(r.value.elems)])

Cont(f, r) ==
    CASE f.fn = "AuthLogin" -> AuthLoginCont(f, r)
      [] f.fn = "TorrentsInfo" -> TorrentsInfoCont(f, r)
      [] f.fn = "TorrentsGetTags" -> TorrentsGetTagsCont(f, r)
      [] f.fn \in DecodeOps -> DecodeCont(f, r)
      [] f.fn = "doRequest" -> DoRequestCont(f, r)
      [] f.fn = "doGet" -> DoGetCont(f, r)
      [] f.fn = "doPost" -> DoPostCont(f, r)
      [] f.fn = "NewClient" -> NewClientCont(f, r)

\* unwind: hand r to the caller on top of stk and keep returning until a
\* function continues or the thread's operation has returned; rets collects
\* what the doRequest invocations left on the way returned
RECURSIVE Resume(_, _, _)
Resume(stk, r, rets) ==
    IF stk = <<>>
    THEN [stk |-> stk, ret |-> r, rets |-> rets]
    ELSE LET f == Top(stk)
             c == Cont(f, r)
         IN  IF c.stop
             THEN [stk |-> SetTop(stk, c.frame), ret |-> NoRet, rets |-> rets]
             ELSE Resume(Pop(stk), c.ret,
                         IF f.fn = "doRequest"
                         THEN Append(rets, [did |-> f.did, ret |-> c.ret])
                         ELSE rets)

\* the state after thread p's stack unwound to out
Unwound(p, out) ==
    /\ stack' = [stack EXCEPT ![p] = out.stk]
    /\ st' = [st EXCEPT ![p] = IF out.stk = <<>> THEN "done" ELSE @]
    /\ result' = [result EXCEPT ![p] = IF out.stk = <<>> THEN out.ret ELSE @]
    /\ client' = IF IsMain(p) /\ out.stk = <<>>
                 THEN (IF out.ret.err.isErr THEN "nil" ELSE "ok")
                 ELSE client
    /\ invs' = [d \in DOMAIN invs |->
                  IF \E j \in DOMAIN out.rets : out.rets[j].did = d
                  THEN [invs[d] EXCEPT
                          !.returned = TRUE,
                          !.ret = out.rets[CHOOSE j \in DOMAIN out.rets :
                                             out.rets[j].did = d].ret]
                  ELSE invs[d]]

(***************************************************************************)
(* Inputs of the operations.                                               *)
(***************************************************************************)
TestEndpoint == "/api/test"
\* query parameters handed to doGet (nil and one parameter set)
Queries == { {}, {<<"rid", "0">>, <<"hash", "h1">>} }
\* request bodies handed to doPost
Bodies == { <<>>, << <<"hashes", "h1">>, <<"tags", "t1">> >> }
\* cookies on a response: the login endpoint sets them when it accepts the
\* credentials
RespCookies(endpoint, s) ==
    IF endpoint = LoginEndpoint /\ s = StatusOK THEN CookieLists ELSE {<<>>}

\* arguments of TorrentsInfo: every Hashes list of up to MaxHashes hashes,
\* nil included, with and without a filter
HashStrings == {<<"x">>, <<"y">>}
HashLists == UNION {[1 .. n -> HashStrings] : n \in 0 .. MaxHashes}
Filters == {<<>>, <<"a", "l", "l">>}
InfoParams ==
    {NoParams, NilParams}
    \cup {Params(f, NilSlice) : f \in Filters}
    \cup {Params(f, Slice(l)) : f \in Filters, l \in HashLists}
\* arguments of TorrentsGetTags: one hash, and two hashes joined by the caller
HashArgs == {<<"x">>, <<"x", "|", "y">>}

\* torrent lists the backend may return: one torrent with every tags string
\* of up to MaxTagLen characters or without the field, and every list of up
\* to MaxTorrents torrents with the sample tags
TagChars == {"a", "b", ","}
RawTagStrings == UNION {[1 .. k -> TagChars] : k \in 0 .. MaxTagLen}
TorrentsWith(tagStrings) ==
    {Torrent(<<"x">>, FALSE, <<>>)}
    \cup {Torrent(<<"x">>, TRUE, t) : t \in tagStrings}
SampleTags == {<<>>, <<"a">>, <<"a", ",", "b">>, <<"b", ",", "b">>}
TorrentLists ==
    {<<t>> : t \in TorrentsWith(RawTagStrings)}
    \cup UNION {[1 .. n -> TorrentsWith(SampleTags)] : n \in 0 .. MaxTorrents}
\* bodies of a response: the torrent list endpoint answers 200 with a JSON
\* array or with text that is no JSON; the endpoints of the other decoding
\* operations answer 200 with the empty value of the shape expected or with
\* text that does not decode as that shape
RespBodies(endpoint, s) ==
    IF endpoint = InfoEndpoint /\ s = StatusOK
    THEN {NoBody} \cup {JSONBody(ts) : ts \in TorrentLists}
    ELSE IF s = StatusOK /\ endpoint \in {DecodeEndpoint(n) : n \in DecodeOps}
    THEN {NoBody, JSONBody(<<>>)}
    ELSE {NoBody}

(***************************************************************************)
(* Initial state: the arguments of NewClient are chosen, nothing has run.  *)
(***************************************************************************)
Init ==
    /\ username \in {"", "testuser"}
    /\ password \in {"", "testpass"}
    /\ client = "none"
    /\ sid = ""
    /\ readers = {}
    /\ writers = {}
    /\ stack = [p \in Procs |-> <<>>]
    /\ st = [p \in Procs |-> "idle"]
    /\ result = [p \in Procs |-> NoRet]
    /\ op = [p \in Procs |-> ""]
    /\ crashed = FALSE
    /\ log = <<>>
    /\ invs = <<>>
    /\ writes = <<>>

Running(p) == ~crashed /\ st[p] = "running"
At(p, fn, pc) == Running(p) /\ Top(stack[p]).fn = fn /\ Top(stack[p]).pc = pc

(***************************************************************************)
(* Operations invoked by the application.                                  *)
(***************************************************************************)
\* variant of ShouldLogin: one of the credentials is enough to log in
ShouldLoginEither(u, pw) == u # "" \/ pw # ""

\* variant of ShouldLogin: NewClient always logs in
ShouldLoginAlways(u, pw) == TRUE

\* NewClient's test whether to authenticate
ShouldLogin(u, pw) == u # "" /\ pw # ""

\* NewClient: build the client and log in if both credentials are given
NewClient ==
    /\ ~crashed /\ st[0] = "idle"
    /\ op' = [op EXCEPT ![0] = "NewClient"]
    /\ IF ShouldLogin(username, password)
       THEN /\ stack' = [stack EXCEPT ![0] =
                           <<[BaseFrame EXCEPT !.fn = "NewClient", !.pc = "login"]>>
                           \o AuthLoginFrames(Len(invs) + 1)]
            /\ invs' = Append(invs, AuthLoginInv(0, 0))
            /\ st' = [st EXCEPT ![0] = "running"]
            /\ UNCHANGED <<client, result>>
       ELSE /\ client' = "ok"
            /\ st' = [st EXCEPT ![0] = "done"]
            /\ UNCHANGED <<stack, invs, result>>
    /\ UNCHANGED <<writes, username, password, sid, readers, writers, crashed, log>>

Idle(p) == ~crashed /\ client = "ok" /\ st[p] = "idle"

\* a direct call of AuthLogin on the constructed client
CallAuthLogin(p) ==
    /\ Idle(p)
    /\ op' = [op EXCEPT ![p] = "AuthLogin"]
    /\ stack' = [stack EXCEPT ![p] = AuthLoginFrames(Len(invs) + 1)]
    /\ invs' = Append(invs, AuthLoginInv(p, 0))
    /\ st' = [st EXCEPT ![p] = "running"]
    /\ UNCHANGED <<writes, username, password, client, sid, readers, writers, result,
                   crashed, log>>

\* doGet(endpoint, query)
CallDoGet(p) ==
    /\ Idle(p)
    /\ \E q \in Queries :
        /\ stack' = [stack EXCEPT ![p] =
                       << [BaseFrame EXCEPT !.fn = "doGet", !.pc = "request"],
                          DoRequestFrame(Len(invs) + 1, "GET", TestEndpoint,
                                         NilReader, "", TRUE, q) >>]
        /\ invs' = Append(invs, InvRec(p, 0, "GET", TestEndpoint, NilReader,
                                       "", TRUE, q))
    /\ op' = [op EXCEPT ![p] = "doGet"]
    /\ st' = [st EXCEPT ![p] = "running"]
    /\ UNCHANGED <<writes, username, password, client, sid, readers, writers, result,
                   crashed, log>>

\* TorrentsInfo(params...) up to the first makeRequest of doRequest
InfoFrames(d, pr) ==
    << [BaseFrame EXCEPT !.fn = "TorrentsInfo", !.pc = "get"],
       [BaseFrame EXCEPT !.fn = "doGet", !.pc = "request"],
       DoRequestFrame(d, "GET", InfoEndpoint, NilReader, "", TRUE,
                      TorrentsInfoQuery(pr)) >>
InfoInv(p, pr) ==
    [InvRec(p, 0, "GET", InfoEndpoint, NilReader, "", TRUE, TorrentsInfoQuery(pr))
       EXCEPT !.args = pr]

CallTorrentsInfo(p) ==
    /\ Idle(p)
    /\ \E pr \in InfoParams :
        /\ stack' = [stack EXCEPT ![p] = InfoFrames(Len(invs) + 1, pr)]
        /\ invs' = Append(invs, InfoInv(p, pr))
    /\ op' = [op EXCEPT ![p] = "TorrentsInfo"]
    /\ st' = [st EXCEPT ![p] = "running"]
    /\ UNCHANGED <<writes, username, password, client, sid, readers, writers, result,
                   crashed, log>>

\* TorrentsTrackers(hash), TorrentsGetAllTags(), SyncMainData(rid) and
\* SyncTorrentPeers(hash, rid) up to the first makeRequest of doRequest
CallDecodeOp(p) ==
    /\ Idle(p)
    /\ \E name \in DecodeOps :
        /\ stack' = [stack EXCEPT ![p] =
                       << [BaseFrame EXCEPT !.fn = name, !.pc = "get"],
                          [BaseFrame EXCEPT !.fn = "doGet", !.pc = "request"],
                          DoRequestFrame(Len(invs) + 1, "GET", DecodeEndpoint(name),
                                         NilReader, "", TRUE, DecodeQuery(name)) >>]
        /\ invs' = Append(invs, InvRec(p, 0, "GET", DecodeEndpoint(name),
                                       NilReader, "", TRUE, DecodeQuery(name)))
        /\ op' = [op EXCEPT ![p] = name]
    /\ st' = [st EXCEPT ![p] = "running"]
    /\ UNCHANGED <<writes, username, password, client, sid, readers, writers, result,
                   crashed, log>>

\* TorrentsGetTags(hashes): TorrentsInfo with Hashes = []string{hashes}
CallTorrentsGetTags(p) ==
    /\ Idle(p)
    /\ \E h \in HashArgs :
        LET pr == Params(<<>>, Slice(<<h>>))
        IN  /\ stack' = [stack EXCEPT ![p] =
                           << [BaseFrame EXCEPT !.fn = "TorrentsGetTags",
                                                !.pc = "info"] >>
                           \o InfoFrames(Len(invs) + 1, pr)]
            /\ invs' = Append(invs, InfoInv(p, pr))
    /\ op' = [op EXCEPT ![p] = "TorrentsGetTags"]
    /\ st' = [st EXCEPT ![p] = "running"]
    /\ UNCHANGED <<writes, username, password, client, sid, readers, writers, result,
                   crashed, log>>

\* TorrentsGetTags: for tag := range tagSet { tags = append(tags, tag) },
\* in whatever order the map yields its keys; tags stays nil if there are none
RangeTags(p) ==
    /\ At(p, "TorrentsGetTags", "range")
    /\ \E tags \in Perms(Top(stack[p]).tagSet) :
          Unwound(p, Resume(Pop(stack[p]),
                            RetValue([nil |-> tags = <<>>, elems |-> tags]), <<>>))
    /\ UNCHANGED <<writes, username, password, sid, readers, writers, op, crashed,
                   log>>

\* doPost(endpoint, body, contentType)
CallDoPost(p) ==
    /\ Idle(p)
    /\ \E b \in Bodies :
        /\ stack' = [stack EXCEPT ![p] =
                       << [BaseFrame EXCEPT !.fn = "doPost", !.pc = "request"],
                          DoRequestFrame(Len(invs) + 1, "POST", TestEndpoint,
                                         NewReader(b), "text/plain", FALSE, {}) >>]
        /\ invs' = Append(invs, InvRec(p, 0, "POST", TestEndpoint, NewReader(b),
                                       "text/plain", FALSE, {}))
    /\ op' = [op EXCEPT ![p] = "doPost"]
    /\ st' = [st EXCEPT ![p] = "running"]
    /\ UNCHANGED <<writes, username, password, client, sid, readers, writers, result,
                   crashed, log>>

(***************************************************************************)
(* Steps of doRequest.                                                     *)
(***************************************************************************)
\* variant of RLock: the read lock is taken without waiting for a writer
RLockNoWait(p) ==
    /\ At(p, "doRequest", "rlock")
    /\ readers' = readers \cup {p}
    /\ stack' = [stack EXCEPT ![p] = SetTop(@, [Top(@) EXCEPT !.pc = "rsid"])]
    /\ UNCHANGED <<writes, username, password, client, sid, writers, st, result, op,
                   crashed, log, invs>>

\* makeRequest: c.mu.RLock()
RLock(p) ==
    /\ At(p, "doRequest", "rlock")
    /\ writers = {}
    /\ readers' = readers \cup {p}
    /\ stack' = [stack EXCEPT ![p] = SetTop(@, [Top(@) EXCEPT !.pc = "rsid"])]
    /\ UNCHANGED <<writes, username, password, client, sid, writers, st, result, op,
                   crashed, log, invs>>

\* variant of ReadSid: the resend takes the cookie of the request sent
\* before instead of reading c.sid again
ReadSidStale(p) ==
    /\ At(p, "doRequest", "rsid")
    /\ LET f == Top(stack[p])
           token == IF f.attempt = 2 THEN log[f.idx].cookie ELSE sid
       IN  stack' = [stack EXCEPT ![p] =
                       SetTop(@, [f EXCEPT !.pc = "runlock",
                                           !.req = AddCookie(@, token)])]
    /\ UNCHANGED <<writes, username, password, client, sid, readers, writers, st,
                   result, op, crashed, log, invs>>

\* makeRequest: read c.sid and attach it as the SID cookie
ReadSid(p) ==
    /\ At(p, "doRequest", "rsid")
    /\ stack' = [stack EXCEPT ![p] =
                   SetTop(@, [Top(@) EXCEPT !.pc = "runlock",
                                            !.req = AddCookie(@, sid)])]
    /\ UNCHANGED <<writes, username, password, client, sid, readers, writers, st,
                   result, op, crashed, log, invs>>

\* variant of RUnlock: the read lock is released on return from doRequest
\* only, so it is still held when the request goes out
RUnlockDeferred(p) ==
    /\ At(p, "doRequest", "runlock")
    /\ stack' = [stack EXCEPT ![p] =
                   SetTop(@, [Top(@) EXCEPT !.pc = "send",
                                            !.req = ApplyOpts(Top(stack[p]), @)])]
    /\ UNCHANGED <<writes, username, password, client, sid, readers, writers, st,
                   result, op, crashed, log, invs>>

\* makeRequest: c.mu.RUnlock(), then the request modifiers
RUnlock(p) ==
    /\ At(p, "doRequest", "runlock")
    /\ readers' = readers \ {p}
    /\ stack' = [stack EXCEPT ![p] =
                   SetTop(@, [Top(@) EXCEPT !.pc = "send",
                                            !.req = ApplyOpts(Top(stack[p]), @)])]
    /\ UNCHANGED <<writes, username, password, client, sid, writers, st, result, op,
                   crashed, log, invs>>

\* what the transport sees of a request: it reads the request body to the end
Wire(p, stk) ==
    LET f == Top(stk)
    IN  [p |-> p, did |-> f.did, chain |-> Chain(stk), attempt |-> f.attempt,
         method |-> f.req.method, endpoint |-> f.req.endpoint,
         body |-> ReadAll(f.req.body), contentType |-> f.req.contentType,
         hasCookie |-> f.req.hasCookie, cookie |-> f.req.cookie,
         rawQuery |-> f.req.rawQuery,
         status |-> 0, cookies |-> <<>>, content |-> NoBody, order |-> 0]

\* c.client.Do(req): the request goes out
Send(p) ==
    /\ At(p, "doRequest", "send")
    /\ log' = Append(log, Wire(p, stack[p]))
    /\ stack' = [stack EXCEPT ![p] =
                   SetTop(@, [Top(@) EXCEPT !.pc = "wait",
                                            !.idx = Len(log) + 1,
                                            !.req.body = Drained(@)])]
    /\ UNCHANGED <<writes, username, password, client, sid, readers, writers, st,
                   result, op, crashed, invs>>

Answered(i, s, ck) ==
    [log EXCEPT ![i].status = s, ![i].cookies = ck,
                ![i].order = Cardinality({j \in DOMAIN log : log[j].status # 0}) + 1]
AnsweredWith(i, s, ck, b) == [Answered(i, s, ck) EXCEPT ![i].content = b]

\* variant of RecvForbidden: the expired token is cleared before the login
RecvForbiddenClear(p) ==
    /\ At(p, "doRequest", "wait")
    /\ Top(stack[p]).attempt = 1
    /\ Depth(stack[p]) < MaxDepth
    /\ LET f == Top(stack[p])
       IN  /\ log' = Answered(f.idx, StatusForbidden, <<>>)
           /\ stack' = [stack EXCEPT ![p] =
                          SetTop(@, [f EXCEPT !.pc = "auth"])
                          \o AuthLoginFrames(Len(invs) + 1)]
           /\ invs' = Append(invs, AuthLoginInv(p, f.did))
    /\ sid' = ""
    /\ UNCHANGED <<writes, username, password, client, readers, writers, st,
                   result, op, crashed>>

\* variant of RecvForbidden: a call whose token another call has replaced in
\* the meantime resends at once and leaves the login to that other call
RecvForbiddenShared(p) ==
    /\ At(p, "doRequest", "wait")
    /\ Top(stack[p]).attempt = 1
    /\ Depth(stack[p]) < MaxDepth
    /\ LET f == Top(stack[p])
       IN  /\ log' = Answered(f.idx, StatusForbidden, <<>>)
           /\ IF f.req.hasCookie /\ f.req.cookie # sid
              THEN /\ stack' = [stack EXCEPT ![p] =
                                 SetTop(@, [f EXCEPT !.pc = "rlock", !.attempt = 2,
                                                     !.req = NewRequest(f)])]
                   /\ UNCHANGED invs
              ELSE /\ stack' = [stack EXCEPT ![p] =
                                 SetTop(@, [f EXCEPT !.pc = "auth"])
                                 \o AuthLoginFrames(Len(invs) + 1)]
                   /\ invs' = Append(invs, AuthLoginInv(p, f.did))
    /\ UNCHANGED <<writes, username, password, client, sid, readers, writers, st,
                   result, op, crashed>>

\* the first send is answered 403: close the response and call AuthLogin
RecvForbidden(p) ==
    /\ At(p, "doRequest", "wait")
    /\ Top(stack[p]).attempt = 1
    /\ Depth(stack[p]) < MaxDepth
    /\ LET f == Top(stack[p])
       IN  /\ log' = Answered(f.idx, StatusForbidden, <<>>)
           /\ stack' = [stack EXCEPT ![p] =
                          SetTop(@, [f EXCEPT !.pc = "auth"])
                          \o AuthLoginFrames(Len(invs) + 1)]
           /\ invs' = Append(invs, AuthLoginInv(p, f.did))
    /\ UNCHANGED <<writes, username, password, client, sid, readers, writers, st,
                   result, op, crashed>>

\* the same, with no stack left for the call of AuthLogin: the runtime aborts
StackOverflow(p) ==
    /\ At(p, "doRequest", "wait")
    /\ Top(stack[p]).attempt = 1
    /\ Depth(stack[p]) >= MaxDepth
    /\ log' = Answered(Top(stack[p]).idx, StatusForbidden, <<>>)
    /\ crashed' = TRUE
    /\ UNCHANGED <<writes, username, password, client, sid, readers, writers, stack,
                   st, result, op, invs>>

\* variant of Recv: after the login doRequest returns the response of its
\* first send, the 403, and not the one of the request it sent again
RecvFirstResponse(p) ==
    /\ At(p, "doRequest", "wait")
    /\ LET f == Top(stack[p])
       IN  \E s \in Statuses : \E ck \in RespCookies(f.endpoint, s) :
           \E b \in RespBodies(f.endpoint, s) :
             /\ ~(f.attempt = 1 /\ s = StatusForbidden)
             /\ log' = AnsweredWith(f.idx, s, ck, b)
             /\ LET r == IF f.attempt = 2
                         THEN RetResp(Response(StatusForbidden,
                                  CHOOSE i \in DOMAIN log :
                                      log[i].did = f.did /\ log[i].attempt = 1,
                                  <<>>))
                         ELSE RetResp([Response(s, f.idx, ck) EXCEPT !.content = b])
                IN  Unwound(p, Resume(Pop(stack[p]), r,
                                      <<[did |-> f.did, ret |-> r]>>))
    /\ UNCHANGED <<writes, username, password, sid, readers, writers, op, crashed>>

\* any other answer is what doRequest returns
Recv(p) ==
    /\ At(p, "doRequest", "wait")
    /\ LET f == Top(stack[p])
       IN  \E s \in Statuses : \E ck \in RespCookies(f.endpoint, s) :
           \E b \in RespBodies(f.endpoint, s) :
             /\ ~(f.attempt = 1 /\ s = StatusForbidden)
             /\ log' = AnsweredWith(f.idx, s, ck, b)
             /\ LET r == RetResp([Response(s, f.idx, ck) EXCEPT !.content = b])
                IN  Unwound(p, Resume(Pop(stack[p]), r,
                                      <<[did |-> f.did, ret |-> r]>>))
    /\ UNCHANGED <<writes, username, password, sid, readers, writers, op, crashed>>

\* variant of TransportFail: doRequest wraps the error of c.client.Do
TransportFailWrapped(p) ==
    /\ At(p, "doRequest", "wait")
    /\ LET f == Top(stack[p])
           r == RetErr(Wrap("request failed", TransportErr))
       IN  /\ log' = Answered(f.idx, -1, <<>>)
           /\ Unwound(p, Resume(Pop(stack[p]), r, <<[did |-> f.did, ret |-> r]>>))
    /\ UNCHANGED <<writes, username, password, sid, readers, writers, op, crashed>>

\* c.client.Do(req) returns an error instead of a response
TransportFail(p) ==
    /\ At(p, "doRequest", "wait")
    /\ LET f == Top(stack[p])
           r == RetErr(TransportErr)
       IN  /\ log' = Answered(f.idx, -1, <<>>)
           /\ Unwound(p, Resume(Pop(stack[p]), r, <<[did |-> f.did, ret |-> r]>>))
    /\ UNCHANGED <<writes, username, password, sid, readers, writers, op, crashed>>

(***************************************************************************)
(* Steps of AuthLogin.                                                     *)
(***************************************************************************)
\* variant of Lock: the write lock is taken without waiting for the readers
LockNoWait(p) ==
    /\ At(p, "AuthLogin", "lock")
    /\ writers = {}
    /\ writers' = {p}
    /\ stack' = [stack EXCEPT ![p] = SetTop(@, [Top(@) EXCEPT !.pc = "store"])]
    /\ UNCHANGED <<writes, username, password, client, sid, readers, st, result, op,
                   crashed, log, invs>>

\* c.mu.Lock()
Lock(p) ==
    /\ At(p, "AuthLogin", "lock")
    /\ writers = {} /\ readers = {}
    /\ writers' = {p}
    /\ stack' = [stack EXCEPT ![p] = SetTop(@, [Top(@) EXCEPT !.pc = "store"])]
    /\ UNCHANGED <<writes, username, password, client, sid, readers, st, result, op,
                   crashed, log, invs>>

\* the token while the two words of the string c.sid are being overwritten
\* by those of another string: neither the old nor the new value
PartialSid == "<partial>"

\* c.sid = cookie.Value, the first word of the string header
StoreSidPartial(p) ==
    /\ At(p, "AuthLogin", "store")
    /\ sid' = IF Top(stack[p]).newSid = sid THEN sid ELSE PartialSid
    /\ stack' = [stack EXCEPT ![p] = SetTop(@, [Top(@) EXCEPT !.pc = "store2"])]
    /\ UNCHANGED <<writes, username, password, client, readers, writers, st, result,
                   op, crashed, log, invs>>

\* variant of StoreSid: only the first login's token is kept, a later login
\* leaves the token as it was
StoreSidOnce(p) ==
    /\ At(p, "AuthLogin", "store2")
    /\ sid' = IF writes = <<>> THEN Top(stack[p]).newSid ELSE writes[1]
    /\ writes' = Append(writes, Top(stack[p]).newSid)
    /\ invs' = [invs EXCEPT ![Top(stack[p]).did].wrote = Len(writes) + 1]
    /\ stack' = [stack EXCEPT ![p] = SetTop(@, [Top(@) EXCEPT !.pc = "unlock"])]
    /\ UNCHANGED <<username, password, client, readers, writers, st, result,
                   op, crashed, log>>

\* c.sid = cookie.Value, completed
StoreSid(p) ==
    /\ At(p, "AuthLogin", "store2")
    /\ sid' = Top(stack[p]).newSid
    /\ writes' = Append(writes, Top(stack[p]).newSid)
    /\ invs' = [invs EXCEPT ![Top(stack[p]).did].wrote = Len(writes) + 1]
    /\ stack' = [stack EXCEPT ![p] = SetTop(@, [Top(@) EXCEPT !.pc = "unlock"])]
    /\ UNCHANGED <<username, password, client, readers, writers, st, result,
                   op, crashed, log>>

\* c.mu.Unlock(); break; return nil
Unlock(p) ==
    /\ At(p, "AuthLogin", "unlock")
    /\ writers' = writers \ {p}
    /\ Unwound(p, Resume(Pop(stack[p]), NoRet, <<>>))
    /\ UNCHANGED <<writes, username, password, sid, readers, op, crashed, log>>

Next ==
    \/ NewClient
    \/ \E p \in Calls : CallAuthLogin(p)
    \/ \E p \in Calls : CallDoGet(p)
    \/ \E p \in Calls : CallDoPost(p)
    \/ \E p \in Procs : RLock(p)
    \/ \E p \in Procs : ReadSid(p)
    \/ \E p \in Procs : RUnlock(p)
    \/ \E p \in Procs : Send(p)
    \/ \E p \in Procs : RecvForbidden(p)
    \/ \E p \in Procs : StackOverflow(p)
    \/ \E p \in Procs : Recv(p)
    \/ \E p \in Procs : TransportFail(p)
    \/ \E p \in Procs : Lock(p)
    \/ \E p \in Procs : StoreSidPartial(p)
    \/ \E p \in Procs : StoreSid(p)
    \/ \E p \in Procs : Unlock(p)

Spec == Init /\ [][Next]_vars

(***************************************************************************)
(* The concurrent scenario: a client constructed with credentials, used by *)
(* both caller threads at once.  Every caller issues one GET; the backend *)
(* answers a GET with any status, 403 when the session has expired, and a  *)
(* login with 200 and a SID cookie.                                        *)
(***************************************************************************)
ConcInit == Init /\ username = "testuser" /\ password = "testpass"

\* the answer entered last into the log for thread p's request in flight
AnswerTo(p) == log'[Top(stack[p]).idx]

ConcCall(p) == CallDoGet(p) /\ invs'[Len(invs')].query = {}

ConcRecvForbidden(p) ==
    RecvForbidden(p) /\ Top(stack[p]).endpoint # LoginEndpoint

ConcRecv(p) ==
    /\ Recv(p)
    /\ AnswerTo(p).endpoint = LoginEndpoint
       => AnswerTo(p).status = StatusOK /\ AnswerTo(p).cookies # <<>>

ConcNext ==
    \/ NewClient
    \/ \E p \in Callers : ConcCall(p)
    \/ \E p \in Procs : RLock(p)
    \/ \E p \in Procs : ReadSid(p)
    \/ \E p \in Procs : RUnlock(p)
    \/ \E p \in Procs : Send(p)
    \/ \E p \in Procs : ConcRecvForbidden(p)
    \/ \E p \in Procs : ConcRecv(p)
    \/ \E p \in Procs : Lock(p)
    \/ \E p \in Procs : StoreSidPartial(p)
    \/ \E p \in Procs : StoreSid(p)
    \/ \E p \in Procs : Unlock(p)

SpecConc == ConcInit /\ [][ConcNext]_vars

(***************************************************************************)
(* The torrent list scenario: two TorrentsInfo calls with the same params, *)
(* one after the other, against a backend whose torrent data does not      *)
(* change.  The backend                                                    *)
(* answers the list request with 200 and the list or, the session having   *)
(* expired, 403 on a first send, and a login with 200 and a SID cookie.    *)
(***************************************************************************)
\* the bodies the unchanged backend holds
StableBodies ==
    {NoBody, JSONBody(<<>>),
     JSONBody(<<Torrent(<<"x">>, TRUE, <<"a", ",", "b">>)>>)}

\* the backend has answered the same query before with this body or not at all
SameAsBefore(a) ==
    \A j \in DOMAIN log :
        (log[j].endpoint = InfoEndpoint /\ log[j].status = StatusOK
         /\ log[j].rawQuery = a.rawQuery)
        => log[j].content = a.content

\* the second call starts when the first has returned and has its params
InfoCall(p) ==
    /\ CallTorrentsInfo(p)
    /\ \A q \in Callers \ {p} : st[q] # "running"
    /\ \A d \in DOMAIN invs :
          invs[d].endpoint = InfoEndpoint => invs'[Len(invs')].args = invs[d].args

InfoRecvForbidden(p) ==
    RecvForbidden(p) /\ Top(stack[p]).endpoint # LoginEndpoint

InfoRecv(p) ==
    /\ Recv(p)
    /\ AnswerTo(p).status = StatusOK
    /\ AnswerTo(p).endpoint = LoginEndpoint => AnswerTo(p).cookies # <<>>
    /\ AnswerTo(p).endpoint = InfoEndpoint
       => AnswerTo(p).content \in StableBodies /\ SameAsBefore(AnswerTo(p))

InfoNext ==
    \/ NewClient
    \/ \E p \in Callers : InfoCall(p)
    \/ \E p \in Procs : RLock(p)
    \/ \E p \in Procs : ReadSid(p)
    \/ \E p \in Procs : RUnlock(p)
    \/ \E p \in Procs : Send(p)
    \/ \E p \in Procs : InfoRecvForbidden(p)
    \/ \E p \in Procs : InfoRecv(p)
    \/ \E p \in Procs : Lock(p)
    \/ \E p \in Procs : StoreSidPartial(p)
    \/ \E p \in Procs : StoreSid(p)
    \/ \E p \in Procs : Unlock(p)

SpecInfo == Init /\ [][InfoNext]_vars

(***************************************************************************)
(* The tags scenario: one call of TorrentsGetTags or of TorrentsInfo       *)
(* without params; the backend answers the list request with 200 and any   *)
(* of the torrent lists or, on a first send, 403.                          *)
(***************************************************************************)
TagsCallInfo(p) == CallTorrentsInfo(p) /\ invs'[Len(invs')].args = NoParams

TagsRecv(p) ==
    /\ Recv(p)
    /\ AnswerTo(p).status = StatusOK
    /\ AnswerTo(p).endpoint = LoginEndpoint => AnswerTo(p).cookies # <<>>
    /\ AnswerTo(p).endpoint = InfoEndpoint => AnswerTo(p).content.json

TagsNext ==
    \/ NewClient
    \/ \E p \in Calls : CallTorrentsGetTags(p)
    \/ \E p \in Calls : TagsCallInfo(p)
    \/ \E p \in Procs : RLock(p)
    \/ \E p \in Procs : ReadSid(p)
    \/ \E p \in Procs : RUnlock(p)
    \/ \E p \in Procs : Send(p)
    \/ \E p \in Procs : InfoRecvForbidden(p)
    \/ \E p \in Procs : TagsRecv(p)
    \/ \E p \in Procs : RangeTags(p)
    \/ \E p \in Procs : Lock(p)
    \/ \E p \in Procs : StoreSidPartial(p)
    \/ \E p \in Procs : StoreSid(p)
    \/ \E p \in Procs : Unlock(p)

SpecTags == Init /\ [][TagsNext]_vars

(***************************************************************************)
(* The decoding scenario: one call of TorrentsInfo without params or of    *)
(* one of the other decoding operations; the backend answers with any      *)
(* status, on 200 with a body that decodes or with one that does not, or   *)
(* the transport fails.                                                    *)
(***************************************************************************)
DecodeCallInfo(p) ==
    CallTorrentsInfo(p) /\ invs'[Len(invs')].args \in {NoParams, NilParams}

DecodeRecv(p) ==
    /\ Recv(p)
    /\ AnswerTo(p).endpoint = InfoEndpoint => AnswerTo(p).content \in StableBodies

DecodeNext ==
    \/ NewClient
    \/ \E p \in Calls : DecodeCallInfo(p)
    \/ \E p \in Calls : CallDecodeOp(p)
    \/ \E p \in Procs : RLock(p)
    \/ \E p \in Procs : ReadSid(p)
    \/ \E p \in Procs : RUnlock(p)
    \/ \E p \in Procs : Send(p)
    \/ \E p \in Procs : RecvForbidden(p)
    \/ \E p \in Procs : StackOverflow(p)
    \/ \E p \in Procs : DecodeRecv(p)
    \/ \E p \in Procs : TransportFail(p)
    \/ \E p \in Procs : Lock(p)
    \/ \E p \in Procs : StoreSidPartial(p)
    \/ \E p \in Procs : StoreSid(p)
    \/ \E p \in Procs : Unlock(p)

SpecDecode == Init /\ [][DecodeNext]_vars

TypeOK ==
    /\ client \in {"none", "ok", "nil"}
    /\ sid \in {"", "a", "b", PartialSid}
    /\ readers \subseteq Procs /\ writers \subseteq Procs
    /\ crashed \in BOOLEAN

(***************************************************************************)
(* Observations on the log used by the properties below.                   *)
(***************************************************************************)
\* the requests sent on behalf of doRequest invocation d: by d itself or by
\* a login nested in it
RequestsFor(d) ==
    {i \in DOMAIN log : \E k \in DOMAIN log[i].chain : log[i].chain[k] = d}
\* the n-th send of invocation d itself
SendOf(d, n) == {i \in DOMAIN log : log[i].did = d /\ log[i].attempt = n}
\* the login request of the AuthLogin that invocation d called
LoginOf(d) ==
    {i \in DOMAIN log : invs[log[i].did].parent = d /\ log[i].attempt = 1}
\* what c.client.Do returned for request i
Yield(i) ==
    IF log[i].status = -1
    THEN RetErr(TransportErr)
    ELSE RetResp([Response(log[i].status, i, log[i].cookies)
                    EXCEPT !.content = log[i].content])
\* request i has been answered with an HTTP status
HasStatus(i) == log[i].status \in Statuses
\* the requests thread p has sent
SentBy(p) == {i \in DOMAIN log : log[i].p = p}
\* the doRequest invocation a thread's operation made itself
TopInv(p) == {d \in DOMAIN invs : invs[d].p = p /\ invs[d].parent = 0}

(***************************************************************************)
(* C1. A dispatch whose first send is answered 403 and whose login is      *)
(* answered 200 sends exactly three requests, the original request, the    *)
(* login POST and the original request again, in this order, and returns   *)
(* what the second send of the original request yielded.                   *)
(***************************************************************************)
C1_ReauthThenResend ==
    \A d \in DOMAIN invs :
        (\E i \in SendOf(d, 1), j \in LoginOf(d) :
            log[i].status = StatusForbidden /\ log[j].status = StatusOK)
        => /\ Cardinality(RequestsFor(d)) <= 3
           /\ invs[d].returned =>
                \E i \in SendOf(d, 1), j \in LoginOf(d), k \in SendOf(d, 2) :
                    /\ RequestsFor(d) = {i, j, k}
                    /\ i < j /\ j < k
                    /\ log[j].method = "POST" /\ log[j].endpoint = LoginEndpoint
                    /\ log[k].method = log[i].method
                    /\ log[k].endpoint = log[i].endpoint
                    /\ invs[d].ret = Yield(k)

\* a GET answered 403, the login answered 200, the second GET answered 200
C1_Witness ==
    \E d \in DOMAIN invs :
        /\ invs[d].returned /\ invs[d].method = "GET"
        /\ invs[d].ret.resp.status = StatusOK
        /\ \E i \in SendOf(d, 1), j \in LoginOf(d) :
              log[i].status = StatusForbidden /\ log[j].status = StatusOK

(***************************************************************************)
(* C2. A dispatch whose first send is answered 403 and whose login is      *)
(* answered with a status other than 200 returns an error wrapping the     *)
(* login failure; the transport has seen the original request and the      *)
(* login POST and nothing more for that call.                              *)
(***************************************************************************)
C2_FailedReauthStops ==
    \A d \in DOMAIN invs :
        \A i \in SendOf(d, 1), j \in LoginOf(d) :
            (log[i].status = StatusForbidden /\ HasStatus(j) /\ log[j].status # StatusOK)
            => /\ RequestsFor(d) = {i, j}
               /\ invs[d].returned
                  => /\ invs[d].ret.err.isErr
                     /\ invs[d].ret.err.wraps[1] = "re-authentication failed"
                     /\ invs[d].ret.err.status = log[j].status

(***************************************************************************)
(* C3. On behalf of one dispatch call at most one login request and at     *)
(* most two sends of the original request are issued, whatever the backend *)
(* answers.                                                                *)
(***************************************************************************)
C3_AtMostOneReauth ==
    \A d \in DOMAIN invs :
        /\ Cardinality({i \in RequestsFor(d) :
                           log[i].did # d /\ log[i].endpoint = LoginEndpoint}) <= 1
        /\ Cardinality({i \in RequestsFor(d) : log[i].did = d}) <= 2

(***************************************************************************)
(* C4. A call does not loop or recurse on a failing login: once the login  *)
(* made for a call that received 403 has been answered with a status other *)
(* than 200 (403 included), the call has returned, with an error.          *)
(***************************************************************************)
C4_LoginFailureSurfaces ==
    \A d \in DOMAIN invs :
        \A i \in SendOf(d, 1), j \in LoginOf(d) :
            (log[i].status = StatusForbidden /\ HasStatus(j) /\ log[j].status # StatusOK)
            => (invs[d].returned /\ invs[d].ret.err.isErr)

(***************************************************************************)
(* C5. With both credentials non-empty and the login request answered      *)
(* with any status other than 200, NewClient has failed (error, nil        *)
(* client) after exactly one login request.                                *)
(***************************************************************************)
C5_ConstructionFails ==
    \A d \in TopInv(0) : \A i \in SendOf(d, 1) :
        (HasStatus(i) /\ log[i].status # StatusOK)
        => /\ SentBy(0) = {i}
           /\ st[0] = "done" => (client = "nil" /\ result[0].err.isErr)

(***************************************************************************)
(* C6. With both credentials empty NewClient sends nothing, succeeds, and  *)
(* the client it returns has the empty token.                              *)
(***************************************************************************)
C6_NoCredentialsNoLogin ==
    (username = "" /\ password = "")
    => /\ SentBy(0) = {}
       /\ st[0] = "done" => (client = "ok" /\ ~result[0].err.isErr)
       /\ (st[0] = "done" /\ st[1] = "idle") => sid = ""

C6_Witness ==
    username = "" /\ password = "" /\ st[0] = "done" /\ st[1] = "idle" /\ client = "ok"

(***************************************************************************)
(* C7. When NewClient logged in and the login was answered 200 with a      *)
(* cookie named SID, the token of the returned client is that cookie's     *)
(* value.                                                                  *)
(***************************************************************************)
C7_TokenIsCookie ==
    (client = "ok" /\ st[1] = "idle")
    => \A d \in TopInv(0) :
         LET ck == invs[d].ret.resp.cookies
         IN  \A k \in DOMAIN ck :
               (/\ invs[d].ret.resp.status = StatusOK
                /\ ck[k].name = "SID"
                /\ \A m \in 1 .. (k - 1) : ck[m].name # "SID")
               => sid = ck[k].value

\* the login's answer carried another cookie before the SID cookie
C7_Witness ==
    /\ client = "ok" /\ st[1] = "idle"
    /\ \E d \in TopInv(0) :
          /\ invs[d].ret.resp.status = StatusOK
          /\ Len(invs[d].ret.resp.cookies) = 2
          /\ invs[d].ret.resp.cookies[1].name = "other"
          /\ sid = "a"

(***************************************************************************)
(* C8. A direct AuthLogin call succeeds if and only if the login request   *)
(* is answered 200; answered with any other status it returns an error     *)
(* carrying that status and the response body.                             *)
(***************************************************************************)
C8_AuthLoginStatus ==
    op[1] = "AuthLogin"
    => \A d \in TopInv(1) : \A i \in SendOf(d, 1) :
         HasStatus(i)
         => /\ st[1] = "done" => (~result[1].err.isErr <=> log[i].status = StatusOK)
            /\ (st[1] = "done" /\ log[i].status # StatusOK)
               => /\ result[1].err.status = log[i].status
                  /\ result[1].err.body = i

(***************************************************************************)
(* C9. A first answer whose status is neither 200 nor 403 is final: it is  *)
(* the only request sent for the call, no login is issued, and doGet and   *)
(* doPost return an error carrying that status and the response body.      *)
(***************************************************************************)
C9_ErrorStatusNotRetried ==
    \A d \in DOMAIN invs : \A i \in SendOf(d, 1) :
        (HasStatus(i) /\ log[i].status \notin {StatusOK, StatusForbidden})
        => /\ RequestsFor(d) = {i}
           /\ invs[d].returned
           /\ invs[d].ret = Yield(i)
           /\ (invs[d].parent = 0 /\ op[invs[d].p] \in {"doGet", "doPost"})
              => /\ st[invs[d].p] = "done"
                 /\ result[invs[d].p].err.isErr
                 /\ ~result[invs[d].p].err.transport
                 /\ result[invs[d].p].err.status = log[i].status
                 /\ result[invs[d].p].err.body = i
                 /\ result[invs[d].p].data = 0

C9_Witness ==
    /\ op[1] = "doGet" /\ st[1] = "done"
    /\ \E d \in TopInv(1) : \E i \in SendOf(d, 1) :
          log[i].status = StatusInternalServerError /\ result[1].err.status = log[i].status

(***************************************************************************)
(* C10. The request resent after re-authentication has the method, path,   *)
(* body bytes, content type and query of the first one; the caller's body  *)
(* reader is read to its end once, before the first send, and every send   *)
(* carries all of its bytes.                                               *)
(***************************************************************************)
C10_ResendSameRequest ==
    /\ \A i \in DOMAIN log : \A k \in DOMAIN log :
          (log[i].did = log[k].did)
          => /\ log[i].method = log[k].method
             /\ log[i].endpoint = log[k].endpoint
             /\ log[i].body = log[k].body
             /\ log[i].contentType = log[k].contentType
             /\ log[i].rawQuery = log[k].rawQuery
    /\ \A i \in DOMAIN log : log[i].body = invs[log[i].did].body.data
    /\ \A p \in Procs : \A n \in DOMAIN stack[p] :
          stack[p][n].fn = "doRequest"
          => stack[p][n].body = Drained(invs[stack[p][n].did].body)

\* a POST with a non-empty body was sent twice
C10_Witness ==
    \E i \in DOMAIN log : \E k \in DOMAIN log :
        /\ log[i].did = log[k].did /\ log[i].attempt = 1 /\ log[k].attempt = 2
        /\ log[i].endpoint = TestEndpoint
        /\ Len(log[k].body) = 2

(***************************************************************************)
(* Observations on the tokens.                                             *)
(***************************************************************************)
\* the tokens the logins have stored so far
StoredSids == {writes[k] : k \in DOMAIN writes}
\* the logins answered 200 with a cookie named SID
GoodLogins ==
    {j \in DOMAIN log : /\ log[j].endpoint = LoginEndpoint
                        /\ log[j].status = StatusOK
                        /\ SIDCookies(log[j]) # <<>>}
\* the value of the first SID cookie of each of them
LoginSids == {SIDCookies(log[j])[1].value : j \in GoodLogins}

(***************************************************************************)
(* C11. Under any interleaving of concurrent calls and logins, a request   *)
(* that goes out carries either no token (the empty initial token) or the  *)
(* complete SID cookie value that a successful login has stored; it never  *)
(* carries a token that is partially written.                              *)
(***************************************************************************)
C11_TokenNeverTorn ==
    \A i \in DOMAIN log :
        log[i].hasCookie
        => /\ log[i].cookie # PartialSid
           /\ log[i].cookie \in StoredSids
           /\ log[i].cookie \in LoginSids

\* the first send of a call carries a token that another thread's login
\* stored after the call was dispatched, replacing a different token
C11_Witness ==
    \E i \in DOMAIN log : \E k \in DOMAIN writes :
        /\ log[i].hasCookie /\ log[i].attempt = 1
        /\ log[i].endpoint # LoginEndpoint
        /\ invs[log[i].did].era >= 1
        /\ k > invs[log[i].did].era
        /\ log[i].cookie = writes[k]
        /\ log[i].cookie # writes[k - 1]

\* thread p is between c.mu.RLock() and c.mu.RUnlock() of makeRequest
Reading(p) == At(p, "doRequest", "rsid") \/ At(p, "doRequest", "runlock")
\* thread p is between c.mu.Lock() and c.mu.Unlock() of AuthLogin
Writing(p) ==
    \/ At(p, "AuthLogin", "store")
    \/ At(p, "AuthLogin", "store2")
    \/ At(p, "AuthLogin", "unlock")

(***************************************************************************)
(* C12. A thread reads the token only while it holds the lock in read      *)
(* mode and writes it only while it holds the lock in write mode; in every *)
(* reachable state a thread in the writer's critical section excludes      *)
(* every other thread from the reader's and from the writer's critical     *)
(* section.  (That several readers may be in theirs at once is the state   *)
(* C12_Witness.)                                                           *)
(***************************************************************************)
C12_LockDiscipline ==
    /\ \A p \in Procs : Reading(p) <=> p \in readers
    /\ \A p \in Procs : Writing(p) <=> p \in writers
    /\ \A p \in Procs : \A q \in Procs \ {p} :
           Writing(p) => ~Writing(q) /\ ~Reading(q)

\* both callers are in the reader's critical section at once, after a
\* re-authentication has written the token
C12_Witness ==
    /\ \A p \in Callers : Reading(p)
    /\ Len(writes) >= 2

\* the AuthLogin invocations that doRequest invocation d called
LoginsOf(d) == {e \in DOMAIN invs : invs[e].parent = d}

(***************************************************************************)
(* C13. Concurrent calls handle the expiry of the session independently.   *)
(* A call logs in or sends its request a second time only if its own first *)
(* send was answered 403; a call whose first send got any other status     *)
(* sends nothing else, whatever the other call does; and a call whose      *)
(* first send was answered 403 makes its own login, on its own thread,     *)
(* before it returns.                                                      *)
(***************************************************************************)
C13_IndependentExpiry ==
    \A d \in DOMAIN invs :
        /\ (LoginsOf(d) # {} \/ SendOf(d, 2) # {})
           => \E i \in SendOf(d, 1) : log[i].status = StatusForbidden
        /\ \A i \in SendOf(d, 1) :
              HasStatus(i) /\ log[i].status # StatusForbidden
              => RequestsFor(d) = {i}
        /\ \A i \in SendOf(d, 1) :
              log[i].status = StatusForbidden
              => /\ \E e \in LoginsOf(d) : invs[e].p = invs[d].p
                 /\ invs[d].returned
                    => \E j \in LoginOf(d) : log[j].p = invs[d].p

\* the calls of both threads were answered 403, each has sent a login of its
\* own, and both have returned
C13_Witness ==
    \E d \in TopInv(1) : \E e \in TopInv(2) :
        /\ \E i \in SendOf(d, 1) : log[i].status = StatusForbidden
        /\ \E i \in SendOf(e, 1) : log[i].status = StatusForbidden
        /\ LoginOf(d) # {} /\ LoginOf(e) # {} /\ LoginOf(d) # LoginOf(e)
        /\ invs[d].returned /\ invs[e].returned

\* the operation of the application on whose behalf request i was sent
CallOf(i) == log[i].chain[1]

(***************************************************************************)
(* C14. Once a login has stored a token, every request built by a call     *)
(* dispatched afterwards carries that token or one stored by a later       *)
(* login, never a token that had been replaced when the call was           *)
(* dispatched.                                                             *)
(***************************************************************************)
C14_RefreshVisible ==
    \A i \in DOMAIN log :
        invs[CallOf(i)].era >= 1
        => /\ log[i].hasCookie
           /\ \E k \in invs[CallOf(i)].era .. Len(writes) :
                 log[i].cookie = writes[k]

\* a call dispatched after a re-authentication replaced the token by a
\* different one has sent its request with the new token
C14_Witness ==
    \E i \in DOMAIN log :
        LET e == invs[CallOf(i)].era
        IN  /\ e >= 2
            /\ log[i].endpoint # LoginEndpoint
            /\ log[i].cookie = writes[e]
            /\ writes[e] # writes[e - 1]
            /\ \E d \in DOMAIN invs : invs[d].parent # 0 /\ invs[d].returned

\* request i was answered by an error of the transport
Failed(i) == log[i].status = -1
\* the requests sent for invocation d in which the transport failed
FailedFor(d) == {i \in RequestsFor(d) : Failed(i)}
\* how many logins lie between invocation d and the sender of request i
Nesting(d, i) ==
    Len(log[i].chain) - (CHOOSE k \in DOMAIN log[i].chain : log[i].chain[k] = d)
\* the error doRequest returns when a login nested n deep failed with e
RECURSIVE ReauthErr(_, _)
ReauthErr(n, e) ==
    IF n = 0 THEN e
    ELSE Wrap("re-authentication failed", Wrap("AuthLogin error", ReauthErr(n - 1, e)))

(***************************************************************************)
(* C15 as stated.  A transport failure on any send made during a dispatch  *)
(* call, the first send, the login send or the resend, ends the call with  *)
(* no further send, and the call returns that transport error unchanged.   *)
(***************************************************************************)
C15_TransportErrorUnchanged ==
    \A d \in DOMAIN invs : \A i \in FailedFor(d) :
        /\ invs[d].returned
        /\ \A j \in RequestsFor(d) : j <= i
        /\ invs[d].ret = RetErr(TransportErr)

(***************************************************************************)
(* C15 amended.  A transport failure on any send made during a dispatch    *)
(* call ends the call with no further send.  When the send that failed is  *)
(* the call's own first send or resend, the call returns the transport     *)
(* error unchanged; when it is the login send of the re-authentication,    *)
(* the call returns the error "re-authentication failed: AuthLogin error:" *)
(* around the transport error.  doGet and doPost hand the error they get   *)
(* from the dispatch to their caller as it is.                             *)
(***************************************************************************)
C15_TransportErrorSurfaces ==
    /\ \A d \in DOMAIN invs : \A i \in FailedFor(d) :
          /\ invs[d].returned
          /\ \A j \in RequestsFor(d) : j <= i
          /\ invs[d].ret = RetErr(ReauthErr(Nesting(d, i), TransportErr))
    /\ \A p \in Procs : \A d \in TopInv(p) :
          (op[p] \in {"doGet", "doPost"} /\ FailedFor(d) # {})
          => st[p] = "done" /\ result[p] = invs[d].ret

\* the login send of a doGet or doPost failed in the transport, after the
\* first send was answered 403
C15_Witness ==
    \E p \in Procs : \E d \in TopInv(p) : \E i \in LoginOf(d) :
        /\ op[p] \in {"doGet", "doPost"}
        /\ Failed(i)
        /\ result[p].err.wraps = <<"re-authentication failed", "AuthLogin error">>

(***************************************************************************)
(* C16. A client constructed with empty credentials never sends a request  *)
(* to the login endpoint, whatever the backend answers to its doGet and    *)
(* doPost calls, an answer of 403 included.                                *)
(***************************************************************************)
C16_NoCredentialsNeverLogin ==
    (username = "" /\ password = "")
    => \A p \in Procs :
          op[p] \in {"doGet", "doPost"}
          => \A i \in SentBy(p) : log[i].endpoint # LoginEndpoint

\* the values the server finds for parameter key in the query of request i
ParamValues(i, key) ==
    {QueryUnescape(log[i].rawQuery[k][2]) :
        k \in {k \in DOMAIN log[i].rawQuery : log[i].rawQuery[k][1] = key}}
\* the strings of a non-empty list in list order with the character c
\* between neighbours
RECURSIVE Glued(_, _)
Glued(ps, c) ==
    IF Len(ps) = 1 THEN ps[1]
    ELSE Glued(SubSeq(ps, 1, Len(ps) - 1), c) \o <<c>> \o ps[Len(ps)]
Piped(hs) == Glued(hs, "|")

(***************************************************************************)
(* C17. The hashes parameter of the request TorrentsInfo sends: there is   *)
(* none when no params are given, when params is nil and when the Hashes   *)
(* list is nil or empty; with one hash it is that hash; with several it is *)
(* the hashes in list order joined by "|".                                 *)
(***************************************************************************)
C17_HashesParam ==
    \A i \in DOMAIN log :
        log[i].endpoint = InfoEndpoint
        => LET hs == invs[log[i].did].args.Hashes.elems
           IN  /\ Len(hs) = 0 => ParamValues(i, "hashes") = {}
               /\ Len(hs) = 1 => ParamValues(i, "hashes") = {hs[1]}
               /\ Len(hs) > 1 => ParamValues(i, "hashes") = {Piped(hs)}

\* a request with two different hashes, y before x, has gone out
C17_Witness ==
    \E i \in DOMAIN log :
        /\ log[i].endpoint = InfoEndpoint
        /\ invs[log[i].did].args.Hashes.elems = << <<"y">>, <<"x">> >>
        /\ ParamValues(i, "hashes") = { <<"y", "|", "x">> }

\* the response from which the call with doRequest invocation d got its body
BodyFor(d) ==
    {j \in DOMAIN log : /\ log[j].did = d
                        /\ log[j].status = StatusOK
                        /\ log[j].content.json}
\* the threads whose operation op has returned without error
Succeeded(name) ==
    {p \in Procs : op[p] = name /\ st[p] = "done" /\ ~result[p].err.isErr}
\* how many commas a string has
Commas(str) == Cardinality({k \in DOMAIN str : str[k] = ","})

(***************************************************************************)
(* C18. Decoding a torrent record: when the tags field is absent or the    *)
(* empty string, Tags is an empty slice that is not nil; otherwise Tags    *)
(* holds the pieces of the tags string between its commas, in their order: *)
(* k commas give k + 1 tags, none of which has a comma, and the tags with  *)
(* commas between them are the string again.                               *)
(***************************************************************************)
C18_TagsDecoded ==
    \A p \in Succeeded("TorrentsInfo") : \A d \in TopInv(p) : \A j \in BodyFor(d) :
        LET recs == log[j].content.torrents
            out == result[p].value.elems
        IN  /\ Len(out) = Len(recs)
            /\ \A k \in DOMAIN recs :
                  LET raw == recs[k].tags
                      tags == out[k].Tags
                  IN  /\ ~tags.nil
                      /\ (~recs[k].hasTags \/ raw = <<>>) => tags.elems = <<>>
                      /\ (recs[k].hasTags /\ raw # <<>>)
                         => /\ Len(tags.elems) = Commas(raw) + 1
                            /\ \A n \in DOMAIN tags.elems : Commas(tags.elems[n]) = 0
                            /\ Glued(tags.elems, ",") = raw

\* a record with the tags string "a,b" has been decoded into the tags a, b
C18_Witness ==
    \E p \in Succeeded("TorrentsInfo") : \E d \in TopInv(p) : \E j \in BodyFor(d) :
        /\ log[j].content.torrents = <<Torrent(<<"x">>, TRUE, <<"a", ",", "b">>)>>
        /\ result[p].value.elems[1].Tags = Slice(<< <<"a">>, <<"b">> >>)

\* the tags of the torrents in a body, as TorrentsInfo decodes them
TagsIn(recs) ==
    UNION { {UnmarshalJSON(recs[k]).Tags.elems[n] :
                n \in DOMAIN UnmarshalJSON(recs[k]).Tags.elems} :
            k \in DOMAIN recs }

(***************************************************************************)
(* C19. TorrentsGetTags returns the union of the tags of the torrents that *)
(* the info query returned: every tag of every such torrent is in the      *)
(* result, the result holds nothing else, and it holds no tag twice.  The  *)
(* order is not fixed.                                                     *)
(***************************************************************************)
C19_TagsUnion ==
    \A p \in Succeeded("TorrentsGetTags") : \A d \in TopInv(p) : \A j \in BodyFor(d) :
        LET out == result[p].value.elems
        IN  /\ \A tg \in TagsIn(log[j].content.torrents) :
                  \E m \in DOMAIN out : out[m] = tg
            /\ \A m \in DOMAIN out : out[m] \in TagsIn(log[j].content.torrents)
            /\ \A m \in DOMAIN out : \A n \in DOMAIN out : m # n => out[m] # out[n]

\* two torrents with the tags a, b and b, b gave the result b, a
C19_Witness ==
    \E p \in Succeeded("TorrentsGetTags") : \E d \in TopInv(p) : \E j \in BodyFor(d) :
        /\ log[j].content.torrents =
              << Torrent(<<"x">>, TRUE, <<"a", ",", "b">>),
                 Torrent(<<"x">>, TRUE, <<"b", ",", "b">>) >>
        /\ result[p].value.elems = << <<"b">>, <<"a">> >>

(***************************************************************************)
(* C20. Two TorrentsInfo calls with the same params on one client, against *)
(* a backend whose torrent data does not change, return the same decoded   *)
(* result, whether the call found a valid token, an expired token that     *)
(* made it log in again, or no token.                                      *)
(***************************************************************************)
C20_SameResult ==
    (\A p \in Callers : op[p] = "TorrentsInfo" /\ st[p] = "done")
    => \A p \in Callers : \A q \in Callers : result[p] = result[q]

\* both calls have returned the same torrent; one of them went straight
\* through, the other had to log in again
C20_Witness ==
    /\ \A p \in Callers : p \in Succeeded("TorrentsInfo")
    /\ \A p \in Callers : Len(result[p].value.elems) = 1
    /\ \E d \in TopInv(1) : \E e \in TopInv(2) :
          /\ invs[d].args.Hashes.elems # <<>>
          /\ (LoginsOf(d) = {}) # (LoginsOf(e) = {})

\* the text before the status in the error doGet and doPost make of a
\* response that is not 200
StatusPrefix(name) ==
    IF name = "doGet" THEN "unexpected response code" ELSE "POST error"

(***************************************************************************)
(* C21. After a re-authentication that succeeded the second send is        *)
(* definitive: the dispatch returns what the second send yielded and has   *)
(* sent the first request, the login and the second request and nothing    *)
(* else, also when the second answer is 403 or another status that is not  *)
(* 200; doGet and doPost then return an error with that status and body.   *)
(***************************************************************************)
C21_SecondSendDefinitive ==
    \A d \in DOMAIN invs :
        \A i \in SendOf(d, 1), j \in LoginOf(d), k \in SendOf(d, 2) :
            (log[i].status = StatusForbidden /\ log[j].status = StatusOK
             /\ HasStatus(k))
            => /\ RequestsFor(d) = {i, j, k}
               /\ invs[d].returned
               /\ invs[d].ret = Yield(k)
               /\ (/\ invs[d].parent = 0
                   /\ op[invs[d].p] \in {"doGet", "doPost"}
                   /\ log[k].status # StatusOK)
                  => /\ st[invs[d].p] = "done"
                     /\ result[invs[d].p] =
                          RetErr(StatusErr(StatusPrefix(op[invs[d].p]),
                                           log[k].status, k))

\* a doPost whose second send, after a login answered 200, got 403 again
C21_Witness ==
    \E p \in Procs : \E d \in TopInv(p) :
        \E i \in SendOf(d, 1), j \in LoginOf(d), k \in SendOf(d, 2) :
            /\ op[p] = "doPost" /\ st[p] = "done"
            /\ log[i].status = StatusForbidden /\ log[j].status = StatusOK
            /\ log[k].status = StatusForbidden

(***************************************************************************)
(* C22 as stated.  After a call's re-authentication succeeded, the request *)
(* it sends again carries the SID value of that call's own login response, *)
(* also when other calls re-authenticate concurrently.                     *)
(***************************************************************************)
C22_ResendCarriesOwnSid ==
    \A d \in DOMAIN invs :
        \A j \in LoginOf(d), k \in SendOf(d, 2) :
            j \in GoodLogins
            => log[k].hasCookie /\ log[k].cookie = SIDCookies(log[j])[1].value

(***************************************************************************)
(* C22 amended.  After a call's re-authentication succeeded with a SID     *)
(* cookie, the request it sends again carries the token its own login      *)
(* stored or a token that a login of another call stored after that.       *)
(***************************************************************************)
C22_ResendCarriesRefreshed ==
    \A d \in DOMAIN invs : \A e \in LoginsOf(d) : \A k \in SendOf(d, 2) :
        invs[e].wrote > 0
        => /\ log[k].hasCookie
           /\ \E n \in invs[e].wrote .. Len(writes) : log[k].cookie = writes[n]
           /\ \A j \in LoginOf(d) :
                 writes[invs[e].wrote] = SIDCookies(log[j])[1].value

\* a resend that carries the token another call's login stored in between,
\* which is not the one its own login got
C22_Witness ==
    \E d \in DOMAIN invs : \E e \in LoginsOf(d) : \E k \in SendOf(d, 2) :
        /\ invs[e].wrote > 0
        /\ log[k].cookie # writes[invs[e].wrote]
        /\ log[k].cookie = writes[invs[e].wrote + 1]
        /\ HasStatus(k)

\* the AuthLogin that invocation e sent the request of returned nil
LoginSucceeded(e) ==
    /\ invs[e].returned
    /\ ~invs[e].ret.err.isErr
    /\ invs[e].ret.resp.status = StatusOK

(***************************************************************************)
(* C23. Every invocation of doRequest follows the path Initial, Sent, then *)
(* Success or Unauthorized, Reauthenticating, Resent, then Success or      *)
(* Fatal.  It sends at most twice and logs in at most once; a login is     *)
(* made for it only after its own first send was answered 403; it sends    *)
(* again only after that login returned without error; without a 403 it    *)
(* returns what the first send yielded; and once the login succeeded it    *)
(* returns what the second send yielded, never the first 403 response.     *)
(***************************************************************************)
C23_StatePath ==
    \A d \in DOMAIN invs :
        /\ Cardinality(SendOf(d, 1)) <= 1
        /\ Cardinality(SendOf(d, 2)) <= 1
        /\ Cardinality(LoginsOf(d)) <= 1
        /\ \A i \in DOMAIN log : log[i].did = d => log[i].attempt \in {1, 2}
        /\ \A e \in LoginsOf(d) :
              \E i \in SendOf(d, 1) :
                  /\ log[i].status = StatusForbidden
                  /\ \A j \in RequestsFor(e) : i < j
        /\ \A k \in SendOf(d, 2) :
              \E e \in LoginsOf(d) :
                  /\ LoginSucceeded(e)
                  /\ \A j \in RequestsFor(e) : j < k
        /\ invs[d].returned
           => /\ \A i \in SendOf(d, 1) :
                    log[i].status # StatusForbidden => invs[d].ret = Yield(i)
              /\ \A e \in LoginsOf(d) :
                    LoginSucceeded(e)
                    => /\ \A i \in SendOf(d, 1) : invs[d].ret # Yield(i)
                       /\ \E k \in SendOf(d, 2) : invs[d].ret = Yield(k)

\* a call that went through the whole path to Fatal: first send 403, login
\* returned nil, second send answered 500 and returned to the caller
C23_Witness ==
    \E d \in DOMAIN invs : \E i \in SendOf(d, 1), k \in SendOf(d, 2) :
        \E e \in LoginsOf(d) :
            /\ invs[d].parent = 0
            /\ log[i].status = StatusForbidden
            /\ LoginSucceeded(e)
            /\ log[k].status = StatusInternalServerError
            /\ invs[d].returned /\ invs[d].ret = Yield(k)

(***************************************************************************)
(* C24. A login answered 200 without a cookie named SID is a success and   *)
(* leaves the stored token as it was before the login, neither cleared nor *)
(* replaced; when the response has several cookies named SID the first of  *)
(* them is the one stored.                                                 *)
(***************************************************************************)
C24_LoginCookieEffect ==
    \A p \in Procs : \A d \in TopInv(p) : \A j \in SendOf(d, 1) :
        (/\ st[p] = "done"
         /\ invs[d].endpoint = LoginEndpoint
         /\ log[j].status = StatusOK)
        => LET cks == log[j].cookies
               sids == {n \in DOMAIN cks : cks[n].name = "SID"}
           IN  IF sids = {}
               THEN /\ result[p] = NoRet
                    /\ invs[d].wrote = 0
                    /\ d = Len(invs)
                       => /\ Len(writes) = invs[d].era
                          /\ sid = IF invs[d].era = 0 THEN ""
                                   ELSE writes[invs[d].era]
               ELSE LET first == CHOOSE n \in sids : \A m \in sids : n <= m
                    IN  /\ result[p] = NoRet
                        /\ invs[d].wrote = invs[d].era + 1
                        /\ writes[invs[d].wrote] = cks[first].value
                        /\ d = Len(invs)
                           => Len(writes) = invs[d].wrote /\ sid = cks[first].value

\* a login answered 200 without cookies that left the token of an earlier
\* login in place, the earlier answer having carried two cookies named SID
C24_Witness ==
    \E j \in DOMAIN log :
        /\ st[1] = "done" /\ op[1] = "AuthLogin"
        /\ log[j].p = 1 /\ log[j].status = StatusOK /\ log[j].cookies = <<>>
        /\ log[1].cookies = <<Cookie("SID", "b"), Cookie("SID", "a")>>
        /\ writes = <<"b">> /\ sid = "b"

(***************************************************************************)
(* C25. The session token changes only in the step that processes a login  *)
(* response with status 200 and a cookie named SID, the store of that      *)
(* cookie's value by the thread of that login.  No other step changes it:  *)
(* not an answer 403 or another error status, not a transport failure, not *)
(* a failed login, not an operation that does not re-authenticate; and the *)
(* token is never cleared.                                                 *)
(***************************************************************************)
C25_TokenChangesOnlyOnLogin ==
    [][sid' # sid
       => /\ sid' # ""
          /\ \E p \in Procs :
                /\ Running(p)
                /\ Top(stack[p]).fn = "AuthLogin"
                /\ Top(stack[p]).pc \in {"store", "store2"}
                /\ sid' \in {PartialSid, Top(stack[p]).newSid}
                /\ \E j \in DOMAIN log :
                      /\ log[j].did = Top(stack[p]).did
                      /\ log[j].p = p
                      /\ log[j].endpoint = LoginEndpoint
                      /\ log[j].status = StatusOK
                      /\ \E n \in DOMAIN log[j].cookies :
                            /\ log[j].cookies[n].name = "SID"
                            /\ log[j].cookies[n].value = Top(stack[p]).newSid
                /\ log' = log]_vars

\* the token of the constructor's login is still there after a call found
\* it expired and the login that followed was refused
C25_Witness ==
    \E i, j \in DOMAIN log :
        /\ i < j
        /\ log[i].hasCookie /\ log[i].cookie = "a"
        /\ log[i].status = StatusForbidden
        /\ log[j].endpoint = LoginEndpoint
        /\ log[j].status = StatusUnauthorized
        /\ st[1] = "done" /\ result[1].err.isErr
        /\ writes = <<"a">> /\ sid = "a"

(***************************************************************************)
(* C26. Every request that goes out, the login request included, carries   *)
(* a cookie named SID if and only if the stored token was not empty at the *)
(* moment the request was built, and the value of the cookie is the token  *)
(* stored at that moment: the step of makeRequest that reads the token     *)
(* attaches exactly it, no later step before the send changes the cookie,  *)
(* and the request that goes out carries the cookie of the request built.  *)
(***************************************************************************)
C26_CookieIsTokenAtBuild ==
    [][\A p \in Procs :
         (Running(p) /\ Top(stack[p]).fn = "doRequest")
         => LET f == Top(stack[p])
                g == Top(stack'[p])
            IN  /\ (f.pc = "rsid" /\ g.pc = "runlock")
                   => /\ g.req.hasCookie = (sid # "")
                      /\ sid # "" => g.req.cookie = sid
                /\ (f.pc = "runlock" /\ g.pc = "send")
                   => /\ g.req.hasCookie = f.req.hasCookie
                      /\ g.req.cookie = f.req.cookie
                /\ (f.pc = "send" /\ g.pc = "wait")
                   => /\ Len(log') = Len(log) + 1
                      /\ log'[Len(log')].p = p
                      /\ log'[Len(log')].hasCookie = f.req.hasCookie
                      /\ log'[Len(log')].cookie = f.req.cookie
                /\ Len(log') > Len(log) => f.pc = "send" \/ log'[Len(log')].p # p
      ]_vars

\* the first login went out without a cookie, the token being empty, and a
\* later login request carried the token stored by then
C26_Witness ==
    \E j \in DOMAIN log :
        /\ log[1].endpoint = LoginEndpoint /\ ~log[1].hasCookie
        /\ log[j].endpoint = LoginEndpoint
        /\ log[j].hasCookie /\ log[j].cookie = "b"
        /\ HasStatus(j)

(***************************************************************************)
(* C27. NewClient issues a login request if and only if both the username  *)
(* and the password are non-empty.  When exactly one of them is empty the  *)
(* construction succeeds, nothing is sent to the backend and the token     *)
(* stays empty.                                                            *)
(***************************************************************************)
C27_LoginIffBothCredentials ==
    /\ SentBy(0) # {} => (username # "" /\ password # "")
    /\ (st[0] = "done" /\ username # "" /\ password # "")
       => \E i \in SentBy(0) :
            /\ \A j \in SentBy(0) : i <= j
            /\ log[i].method = "POST" /\ log[i].endpoint = LoginEndpoint
    /\ (st[0] = "done" /\ (username = "") # (password = ""))
       => /\ client = "ok" /\ result[0] = NoRet
          /\ TopInv(0) = {}
          /\ st[1] = "idle" => (sid = "" /\ log = <<>>)

\* a client constructed with a username and no password
C27_Witness ==
    /\ username # "" /\ password = ""
    /\ op[0] = "NewClient" /\ st[0] = "done" /\ st[1] = "idle"
    /\ client = "ok" /\ sid = ""

\* the operations that decode the body of their one GET
DecodingOps == DecodeOps \cup {"TorrentsInfo"}
\* the error they return for a body that does not decode
DecodeFailure(name) ==
    RetErr(Wrap(IF name = "TorrentsInfo" THEN "failed to decode response"
                ELSE DecodeErrPrefix(name), DecodeErr))

(***************************************************************************)
(* C28 as stated.  A 200 response whose body does not decode makes         *)
(* TorrentsInfo, TorrentsTrackers, TorrentsGetAllTags, SyncMainData and    *)
(* SyncTorrentPeers return a decode error and a nil result, and exactly    *)
(* one request was sent by the operation.                                  *)
(***************************************************************************)
C28_DecodeErrorOneRequest ==
    \A p \in Procs : \A d \in TopInv(p) : \A i \in DOMAIN log :
        (/\ op[p] \in DecodingOps
         /\ log[i].did = d
         /\ log[i].status = StatusOK /\ ~log[i].content.json)
        => /\ st[p] = "done"
           /\ result[p] = DecodeFailure(op[p])
           /\ RequestsFor(d) = {i}

(***************************************************************************)
(* C28 amended.  A 200 response whose body does not decode makes the       *)
(* operation return a decode error and a nil result, and no login and no   *)
(* request follows it: it is the only request when it answers the first    *)
(* send, and when it answers the send made again after a first 403 and a   *)
(* login, the requests of the operation are those and none after it.       *)
(***************************************************************************)
C28_DecodeErrorFinal ==
    \A p \in Procs : \A d \in TopInv(p) : \A i \in DOMAIN log :
        (/\ op[p] \in DecodingOps
         /\ log[i].did = d
         /\ log[i].status = StatusOK /\ ~log[i].content.json)
        => /\ st[p] = "done"
           /\ result[p] = DecodeFailure(op[p])
           /\ result[p].value = NilSlice
           /\ \A j \in RequestsFor(d) : j <= i
           /\ log[i].attempt = 1 => RequestsFor(d) = {i}
           /\ log[i].attempt = 2
              => /\ \E k \in SendOf(d, 1) : log[k].status = StatusForbidden
                 /\ \E e \in LoginsOf(d) : LoginSucceeded(e)
                 /\ Cardinality(RequestsFor(d)) >= 3

\* SyncMainData got 403, logged in, and the answer to the request sent
\* again was a 200 that does not decode
C28_Witness ==
    \E i \in DOMAIN log :
        /\ op[1] = "SyncMainData" /\ st[1] = "done"
        /\ log[i].endpoint = DecodeEndpoint("SyncMainData")
        /\ log[i].attempt = 2
        /\ log[i].status = StatusOK /\ ~log[i].content.json
        /\ result[1].err.isErr

\* thread p has a request in flight: sent and not answered yet
InFlight(p) == \E i \in SentBy(p) : log[i].status = 0
\* thread p is about to build a request or to send it
BeforeSend(p) == Running(p) /\ Top(stack[p]).pc = "send"
\* thread p waits for the lock, in read or in write mode
WaitsForLock(p) == At(p, "doRequest", "rlock") \/ At(p, "AuthLogin", "lock")
\* some thread can take the lock or make the next step of its critical
\* section, none of which needs the backend
LockStep ==
    \E p \in Procs :
        \/ RLock(p) \/ ReadSid(p) \/ RUnlock(p)
        \/ Lock(p) \/ StoreSidPartial(p) \/ StoreSid(p) \/ Unlock(p)

(***************************************************************************)
(* C29. The session lock is never held while a request is in flight, be it *)
(* the original send, the login send or the resend: a thread that is about *)
(* to send or waits for an answer holds the lock in neither mode, a thread *)
(* that holds the lock does not wait for it, and whenever a thread waits   *)
(* for the lock some thread can take it or go on in its critical section   *)
(* without any answer from the backend, so the calls cannot deadlock on    *)
(* the lock.                                                               *)
(***************************************************************************)
C29_NoLockInFlight ==
    /\ \A p \in Procs :
          (InFlight(p) \/ BeforeSend(p)) => (p \notin readers /\ p \notin writers)
    /\ \A p \in readers \cup writers : ~WaitsForLock(p)
    /\ (\E p \in Procs : WaitsForLock(p)) => ENABLED LockStep

\* one caller's login is in flight while the other, whose own login has
\* been answered, holds the lock and writes the token
C29_Witness ==
    \E p \in Callers : \E q \in Callers \ {p} :
        /\ InFlight(p)
        /\ Top(stack[p]).endpoint = LoginEndpoint
        /\ Writing(q) /\ q \in writers

\* the login requests the callers made, each for its own re-authentication
CallerLogins ==
    {j \in DOMAIN log : log[j].p \in Callers /\ log[j].endpoint = LoginEndpoint}
\* every caller has re-authenticated and returned, the logins having been
\* answered 200 with different SID values
AllReauthenticated ==
    /\ \A p \in Callers : st[p] = "done" /\ (\E j \in CallerLogins : log[j].p = p)
    /\ CallerLogins \subseteq GoodLogins
    /\ \A i \in CallerLogins : \A j \in CallerLogins \ {i} :
          SIDCookies(log[i])[1].value # SIDCookies(log[j])[1].value

(***************************************************************************)
(* C30 as stated.  When several calls have re-authenticated concurrently   *)
(* and all their logins succeeded with distinct SID values, the token      *)
(* stored once they have all finished is the SID of the login whose        *)
(* response was received last from the backend.                            *)
(***************************************************************************)
C30_LastReceivedWins ==
    AllReauthenticated
    => \A j \in CallerLogins :
         (\A i \in CallerLogins : log[i].order <= log[j].order)
         => sid = SIDCookies(log[j])[1].value

(***************************************************************************)
(* C30 amended.  When several calls have re-authenticated concurrently and *)
(* all their logins succeeded with distinct SID values, the token stored   *)
(* once they have all finished is the SID of the login that stored its     *)
(* token last, that is, took the write lock last; this need not be the     *)
(* login whose response was received last.                                 *)
(***************************************************************************)
C30_LastStoredWins ==
    AllReauthenticated
    => /\ sid = writes[Len(writes)]
       /\ \A j \in CallerLogins :
             /\ invs[log[j].did].wrote > 0
             /\ (\A i \in CallerLogins :
                    invs[log[i].did].wrote <= invs[log[j].did].wrote)
                => sid = SIDCookies(log[j])[1].value

\* both callers have finished and the token is the SID of the login that
\* was answered first and stored last
C30_Witness ==
    /\ AllReauthenticated
    /\ \E i \in CallerLogins : \E j \in CallerLogins :
          /\ log[i].order < log[j].order
          /\ invs[log[i].did].wrote > invs[log[j].did].wrote
          /\ sid = SIDCookies(log[i])[1].value

====
